---- MODULE Spec2Model ----
(***************************************************************************)
(* The MCP v2 Python client: BaseMCPClient (client.py) over one of its two *)
(* transports, HttpTransport (transport/http.py) or WebSocketTransport     *)
(* (transport/websocket.py).  Every coroutine is cut at its real           *)
(* suspension points (awaits on the network, on a future, on a sleep);     *)
(* what runs between two suspension points is one atomic action, as on the *)
(* asyncio event loop.  _emit_event, _handle_error, _handle_message and    *)
(* the four transport hooks never suspend, so each is an operator applied  *)
(* inside the action of the coroutine that awaits it.                      *)
(*                                                                         *)
(* Simplifications: an event on the queue is its type; a listener is what  *)
(* it does when called (return, raise, remove itself, register another     *)
(* listener); of a request, its id, method, context and metadata are kept; *)
(* the coroutines of connect(), disconnect() and close() that are          *)
(* suspended at the same await are counted, not told apart; of the         *)
(* sessions, sockets and receive tasks that the transport no longer names, *)
(* what is in flight on them is kept: a POST or probe on a session that is *)
(* not named any more goes on, the running tasks are counted by whether    *)
(* their socket is still named, and the cancelled ones are kept with the   *)
(* disconnect() calls that await them.  A socket hands each frame to one   *)
(* of the tasks that iterate it.                                           *)
(*                                                                         *)
(* The specifications share the actions.  Spec is the client of an         *)
(* application that sends requests, registers no listener and does not     *)
(* iterate events().  SpecMetrics is the client with one caller, built     *)
(* with or without metrics, never closed.  SpecEvents is the client of an  *)
(* application that registers and removes listeners, updates the context   *)
(* and sends no request.  SpecIterate is the client of an application that *)
(* iterates events() and updates the context, FairSpecIterate that client  *)
(* under the event loop's scheduling.                                      *)
(* SpecReceive is the websocket client with the record of the frames its   *)
(* receive loops take.  SpecRetry is the HTTP client under each configured *)
(* retry_attempts.  SpecSerial is the websocket client of an application   *)
(* that awaits each connect() and disconnect() before the next,            *)
(* FairSpecSerial that client under the event loop's scheduling.           *)
(* SpecCalls is the client with one caller and the timer of wait_for,      *)
(* FairSpecCalls that client under the event loop's scheduling.            *)
(***************************************************************************)
EXTENDS Integers, Sequences, FiniteSets, TLC

(* ------------------------------ bounds -------------------------------- *)
\* what the environment does in one behaviour besides a first connect(),
\* issuing requests and answering them: further connect(), disconnect() and
\* close() invocations, update_context(), cancelling a caller's task, a request
\* timer that fires, and faults (a failed probe, POST or socket write, a frame
\* that fails to decode, a socket error, a session or socket whose close raises)
MaxEnvOps == 2
\* add_event_listener and remove_event_listener calls of the application in
\* one behaviour
MaxListenerOps == 2
\* inbound frames in one behaviour of the specification that keeps their record
MaxFrames == 2

(* ------------------------- program constants -------------------------- *)
\* tenacity's stop_after_attempt(3) on HttpTransport.send
StopAfterAttempt == 3
INTERNAL_ERROR == -32603
METHOD_NOT_FOUND == -32601
TRANSPORT_ERROR == -32200
\* asyncio.Queue() is built without a maxsize: 0, which asyncio takes as "no limit"
maxsize == 0

(* ----------------------------- values --------------------------------- *)
\* Python's None
None == [none |-> TRUE]

EventType ==
  {"request.sent", "response.received", "error.occurred", "connection.opened",
   "connection.closed", "connection.error", "context.updated", "metrics.collected"}

\* The event types whose emits the history variable emitted counts
CountedEvents ==
  {"request.sent", "response.received", "error.occurred", "context.updated"}

\* What a registered callable does when it is called: return, raise, remove
\* itself from the registry, or register another listener
Listeners == {"ok", "raise", "remove", "add"}

\* The event type the application listens to
ListenedTypes == {"connection.opened"}

\* A ContextInfo the application hands to update_context
Contexts == {[context_id |-> "ctx-1"]}

\* The send_request/send invocations of one behaviour, each a coroutine of its
\* own; they are interchangeable, so the second is issued after the first.
Calls == {1, 2}
NoCall == 0

\* Who runs transport code: connect(), disconnect(), close() in its disconnect()
\* and close() in its transport.close(); and the awaits of the transports
Who == {"connect", "disconnect", "close", "close_transport"}
Awaits ==
  {"handshake", "probe", "probe_unnamed", "probe_aborted", "session_close", "receive_task",
   "old_task", "ended_task", "websocket_close"}
Positions == Who \X Awaits

\* Request ids that pass validation (interchangeable: a request takes an id
\* already in use or the first unused one), and one that does not
IdSeq == << "a", "b" >>
Ids == {IdSeq[n] : n \in 1..Len(IdSeq)}
Methods == {"search", ""}

\* str.strip() on the ids and methods above
strip(s) == IF s = " " THEN "" ELSE s

MCPRequest(id, method) == [id |-> id, method |-> method, context |-> None, metadata |-> None]

MCPError(code, message, type) == [code |-> code, message |-> message, type |-> type]
Errors == { MCPError(METHOD_NOT_FOUND, "Method not found", "METHOD_NOT_FOUND") }

MCPResponse(id, result, error) == [id |-> id, result |-> result, error |-> error]
SuccessResult == [status |-> "success", count |-> 5]
\* What a server can answer: any id, a result or an error
Responses ==
  {MCPResponse(i, SuccessResult, None) : i \in Ids}
    \cup {MCPResponse(i, None, e) : i \in Ids, e \in Errors}

is_success(response) == response.error = None

MCPClientException(message, error_code, error_type) ==
  [cls |-> "MCPClientException", message |-> message,
   error_code |-> error_code, error_type |-> error_type]
ClientError(message) == MCPClientException(message, INTERNAL_ERROR, "INTERNAL_ERROR")
MCPTransportException(message) ==
  [cls |-> "MCPTransportException", message |-> message,
   error_code |-> TRANSPORT_ERROR, error_type |-> "TRANSPORT_ERROR"]
CancelledError == [cls |-> "CancelledError"]

\* asyncio.Future: pending, or done with a result, an exception or cancelled
NoFuture == [state |-> "none", value |-> None]
PendingFuture == [state |-> "pending", value |-> None]
NoOutcome == [kind |-> "none", value |-> None]
Returned(response) == [kind |-> "returned", value |-> response]
Raised(exc) == [kind |-> "raised", value |-> exc]

\* One send_request coroutine: where it is suspended (pc), its request, the
\* attempt of HttpTransport.send it is in, its future and what it returned or
\* raised.  History: nres counts the responses applied to the future, answer is
\* the response applied, at_close tells that its entry was in the table when
\* close() was first called.
IdleCall ==
  [pc |-> "idle", request |-> None, attempt |-> 0, future |-> NoFuture,
   outcome |-> NoOutcome, nres |-> 0, answer |-> None, at_close |-> FALSE]

(* ------------------------------ state --------------------------------- *)
VARIABLES
  kind,                 \* TransportConfig.type: "http" or "websocket"
  enable_metrics,       \* ClientConfig.enable_metrics
  retry_attempts,       \* TransportConfig.retry_attempts
  connected,            \* BaseMCPClient._connected
  closed,               \* BaseMCPClient._closed
  pending_requests,     \* BaseMCPClient._pending_requests: id -> owner of the future
  metrics,              \* BaseMCPClient._metrics
  event_queue,          \* BaseMCPClient._event_queue
  event_listeners,      \* BaseMCPClient._event_listeners: event type -> listeners in order
  events_pc,            \* the events() generator: "none" (not iterated yet), "getting"
                        \* (it has entered wait_for), "waiting" (its get() is suspended on
                        \* an empty queue), "yielded" (it has taken an event off the
                        \* queue) or "stopped"
  current_context,      \* BaseMCPClient._current_context
  emit_tasks,           \* tasks update_context() created that have not run yet
  emitted,              \* history: how many events of each counted type were emitted
  delivered,            \* history: the listeners the last emit called, in order
  frames,               \* history: the inbound frames the receive loops took, in order
  messages,             \* history: the responses on_message was called with, in order
  recording,            \* whether those two histories are kept
  transport_connected,  \* HttpTransport._connected / WebSocketTransport._connected
  session,              \* HttpTransport._session: "none", "open", "closed"
  websocket,            \* WebSocketTransport._websocket: "none", "open", "closed"
  receive_task,         \* WebSocketTransport._receive_task: "none", "created" (it has not
                        \* run yet), "running", "cancelling" (cancel() was called, its
                        \* CancelledError not yet raised), "cancelling_created" (the same,
                        \* of a task that has not run yet), "finished"
  sharing_tasks,        \* receive tasks still running that _receive_task no longer names,
                        \* on the socket that _websocket names
  orphan_tasks,         \* ... and on a socket that _websocket no longer names
  unstarted_tasks,      \* receive tasks that have not run yet and are no longer named
  cancelled_tasks,      \* the tasks no longer named in which a CancelledError is about to
                        \* be raised: of each, whether it has run (started) and how many
                        \* disconnect() of whom await it (awaited_by)
  calls,                \* the send_request coroutines
  ops,                  \* the connect(), disconnect() and close() coroutines in progress:
                        \* how many are suspended at each await of the transport
  close_outcome,        \* how close() ended: "none", "returned", "raised"
  connect_outcome,      \* how the last connect() ended: "none" (none yet, or still
                        \* running), "returned", "ClientError", "TransportError"
  probe_status,         \* history: how the HEAD /health probe that ended last ended, a
                        \* status or "error" (it raised); "none" before the first
  id_clash,             \* history: a request was issued with the id of a call in flight
  used                  \* history: how often the environment has acted

vars ==
  << kind, enable_metrics, retry_attempts, connected, closed, pending_requests, metrics,
     event_queue, events_pc, event_listeners, current_context, emit_tasks, emitted, delivered,
     frames, messages, recording,
     transport_connected, session, websocket, receive_task,
     sharing_tasks, orphan_tasks, unstarted_tasks, cancelled_tasks, calls, ops,
     close_outcome, connect_outcome, probe_status, id_clash, used >>

config_vars == << kind, enable_metrics, retry_attempts, recording >>
context_vars == << current_context, emit_tasks >>
listener_vars == << event_listeners, emitted, delivered >>
task_vars == << sharing_tasks, orphan_tasks, unstarted_tasks, cancelled_tasks >>
transport_vars == << transport_connected, session, websocket, receive_task, task_vars >>

\* BaseMCPClient.__init__, whatever enable_metrics is
Constructed ==
  /\ kind \in {"http", "websocket"}
  /\ connected = FALSE
  /\ closed = FALSE
  /\ pending_requests = [i \in Ids |-> NoCall]
  /\ metrics = [requests_total |-> 0, responses_total |-> 0, errors_total |-> 0,
                connection_status |-> "disconnected"]
  /\ event_queue = << >>
  /\ events_pc = "none"
  /\ event_listeners = [t \in EventType |-> << >>]
  /\ current_context = None
  /\ emit_tasks = 0
  /\ emitted = [t \in CountedEvents |-> 0]
  /\ delivered = << >>
  /\ transport_connected = FALSE
  /\ session = "none"
  /\ websocket = "none"
  /\ receive_task = "none"
  /\ sharing_tasks = 0
  /\ orphan_tasks = 0
  /\ unstarted_tasks = 0
  /\ cancelled_tasks = << >>
  /\ calls = [c \in Calls |-> IdleCall]
  /\ ops = [p \in Positions |-> 0]
  /\ close_outcome = "none"
  /\ connect_outcome = "none"
  /\ probe_status = "none"
  /\ id_clash = FALSE
  /\ used = [connects |-> 0, closes |-> 0, others |-> 0, refused |-> 0, updates |-> 0,
             listener_ops |-> 0]

NoFrameLog == recording = FALSE /\ frames = << >> /\ messages = << >>

\* TransportConfig.retry_attempts: its default, and the values the factory and
\* the tests configure
DefaultRetryAttempts == 3
RetryAttempts == {1, 3, 5}


\* A client built with metrics enabled (the default of ClientConfig)
Init ==
  /\ Constructed
  /\ enable_metrics = TRUE
  /\ retry_attempts = DefaultRetryAttempts
  /\ NoFrameLog

\* A client built with metrics enabled or with enable_metrics(False)
InitAnyMetrics ==
  /\ Constructed
  /\ enable_metrics \in BOOLEAN
  /\ retry_attempts = DefaultRetryAttempts
  /\ NoFrameLog

\* An HTTP client whose TransportConfig has any of the configured retry counts
InitRetry ==
  /\ Constructed
  /\ kind = "http"
  /\ enable_metrics = TRUE
  /\ retry_attempts \in RetryAttempts
  /\ NoFrameLog

\* A websocket client, with the record of frames and on_message calls kept
InitReceive ==
  /\ Constructed
  /\ kind = "websocket"
  /\ enable_metrics = TRUE
  /\ retry_attempts = DefaultRetryAttempts
  /\ recording = TRUE
  /\ frames = << >>
  /\ messages = << >>

EnvBudget == used.closes + used.others + used.refused + used.updates < MaxEnvOps

\* The environment injects one fault
Fault ==
  /\ EnvBudget
  /\ used' = [used EXCEPT !.others = @ + 1]

(* ------------------ the client's synchronous helpers ------------------ *)
\* The part of the client that _handle_message, _handle_error and _emit_event
\* read and write, as one value s: s.p pending table, s.m metrics, s.q event
\* queue, s.c the calls (their futures), s.n the client's connected flag.
ClientState ==
  [p |-> pending_requests, m |-> metrics, q |-> event_queue, c |-> calls, n |-> connected,
   l |-> event_listeners, e |-> emitted, d |-> delivered, h |-> messages]

\* A history with one more entry, where one is kept
log(history, entry) == IF recording THEN Append(history, entry) ELSE history

Apply(s) ==
  /\ pending_requests' = s.p
  /\ metrics' = s.m
  /\ event_queue' = s.q
  /\ calls' = s.c
  /\ connected' = s.n
  /\ event_listeners' = s.l
  /\ emitted' = s.e
  /\ delivered' = s.d
  /\ messages' = s.h

\* list.remove(listener): the first occurrence goes; ValueError when there is none
remove(list, listener) ==
  LET at == {n \in 1..Len(list) : list[n] = listener}
      k == CHOOSE n \in at : \A m \in at : n <= m
  IN SubSeq(list, 1, k - 1) \o SubSeq(list, k + 1, Len(list))

add_event_listener(s, event_type, listener) ==
  [s EXCEPT !.l[event_type] = Append(@, listener)]

remove_event_listener(s, event_type, listener) ==
  IF \E n \in 1..Len(s.l[event_type]) : s.l[event_type][n] = listener
    THEN [s EXCEPT !.l[event_type] = remove(@, listener)]
    ELSE s

\* What a listener does when it is called with an event of event_type
listener(s, event_type, name) ==
  CASE name = "remove" -> remove_event_listener(s, event_type, name)
    [] name = "add"    -> add_event_listener(s, event_type, "ok")
    [] name = "raise"  -> s
    [] OTHER           -> s

RECURSIVE notify_listeners_unguarded(_, _, _)
\* Mutation: the loop without its try/except: a listener that raises ends it
notify_listeners_unguarded(s, event_type, i) ==
  IF i > Len(s.l[event_type])
    THEN s
    ELSE LET name == s.l[event_type][i]
             called == listener([s EXCEPT !.d = Append(@, name)], event_type, name)
         IN IF name = "raise"
              THEN called
              ELSE notify_listeners_unguarded(called, event_type, i + 1)

RECURSIVE notify_listeners(_, _, _)
\* for listener in listeners: the loop of _emit_event over the registry's own list
notify_listeners(s, event_type, i) ==
  IF i > Len(s.l[event_type])
    THEN s
    ELSE LET name == s.l[event_type][i]
         IN notify_listeners(listener([s EXCEPT !.d = Append(@, name)], event_type, name),
                             event_type, i + 1)

\* asyncio.Queue.full()
full(queue) == IF maxsize <= 0 THEN FALSE ELSE Len(queue) >= maxsize

\* "try: self._event_queue.put_nowait(event_data) except asyncio.QueueFull: warning"
put_nowait(queue, event) == IF full(queue) THEN queue ELSE Append(queue, event)

emit_event(s, event_type) ==
  notify_listeners([s EXCEPT !.q = put_nowait(@, event_type),
                             !.e = IF event_type \in CountedEvents
                                     THEN [@ EXCEPT ![event_type] = @ + 1] ELSE @,
                             !.d = << >>],
                   event_type, 1)

update_metric(s, key, value) ==
  IF enable_metrics THEN [s EXCEPT !.m[key] = value] ELSE s

\* Mutation: the counters are kept whatever enable_metrics says
count_metric_always(s, key) == [s EXCEPT !.m[key] = @ + 1]

count_metric(s, key) ==
  IF enable_metrics THEN [s EXCEPT !.m[key] = @ + 1] ELSE s

handle_error(s) == emit_event(count_metric(s, "errors_total"), "error.occurred")

\* Future.set_result / Future.set_exception: InvalidStateError on a done future
InFlight(call) ==
  call.pc \in {"sending", "sending_unnamed", "aborted", "backoff", "waiting", "timeout"}

\* Mutation: the exception is built with the default code and type
error_exception_default(error) == ClientError(error.message)

\* MCPClientException(message=..., error_code=..., error_type=...) of an
\* error response
error_exception(error) == MCPClientException(error.message, error.code, error.type)

\* Mutation: the future is looked up with get(), the entry left in the table
resolve_keeps_entry(s, key, response) ==
  LET owner == s.p[key] IN
  IF owner = NoCall
    THEN s
    ELSE IF s.c[owner].future.state = "pending"
           THEN IF is_success(response)
                  THEN [s EXCEPT
                          !.c[owner].future = [state |-> "result", value |-> response],
                          !.c[owner].nres = @ + 1,
                          !.c[owner].answer = response]
                  ELSE [s EXCEPT
                          !.c[owner].future =
                            [state |-> "exception",
                             value |-> error_exception(response.error)],
                          !.c[owner].nres = @ + 1,
                          !.c[owner].answer = response]
           ELSE handle_error(s)

\* The body of _handle_message for the entry found under key: the entry is
\* popped, its future gets the response or the exception made of its error; an
\* InvalidStateError of a done future goes to _handle_error.  No entry: a warning.
resolve(s, key, response) ==
  LET owner == s.p[key] IN
  IF owner = NoCall
    THEN s
    ELSE LET popped == [s EXCEPT !.p[key] = NoCall] IN
         IF s.c[owner].future.state = "pending"
           THEN IF is_success(response)
                  THEN [popped EXCEPT
                          !.c[owner].future = [state |-> "result", value |-> response],
                          !.c[owner].nres = @ + 1,
                          !.c[owner].answer = response]
                  ELSE [popped EXCEPT
                          !.c[owner].future =
                            [state |-> "exception",
                             value |-> error_exception(response.error)],
                          !.c[owner].nres = @ + 1,
                          !.c[owner].answer = response]
           ELSE handle_error(popped)

\* Mutation: the response is given to the first pending entry, whatever its id
handle_message_first_entry(s, response) ==
  LET keys == {n \in 1..Len(IdSeq) : s.p[IdSeq[n]] # NoCall} IN
  IF keys = {}
    THEN s
    ELSE resolve(s, IdSeq[CHOOSE n \in keys : \A m \in keys : n <= m], response)

\* _handle_message: the future is looked up by the response's id
\* Mutation: a response nobody waits for is treated as an error
handle_message_unknown_is_error(s, response) ==
  IF s.p[response.id] = NoCall
    THEN handle_error(s)
    ELSE resolve(s, response.id, response)

handle_message(s, response) == resolve(s, response.id, response)

on_message(s, response) == handle_message([s EXCEPT !.h = log(@, response)], response)

on_connect(s) ==
  emit_event(update_metric([s EXCEPT !.n = TRUE], "connection_status", "connected"),
             "connection.opened")

on_disconnect(s) ==
  emit_event(update_metric([s EXCEPT !.n = FALSE], "connection_status", "disconnected"),
             "connection.closed")

on_error(s) == handle_error(s)

transport_is_connected ==
  IF kind = "http"
    THEN transport_connected /\ session = "open"
    ELSE transport_connected /\ websocket = "open"

\* Mutation: is_connected() answers with the client's own flag alone
is_connected_flag_only == connected

is_connected == connected /\ transport_is_connected

\* get_metrics(): {} when metrics are disabled, else a copy of the metrics with
\* the connection state and the size of the table (and a timestamp, left out)
get_metrics ==
  IF ~enable_metrics
    THEN << >>
    ELSE [requests_total |-> metrics.requests_total,
          responses_total |-> metrics.responses_total,
          errors_total |-> metrics.errors_total,
          connection_status |-> metrics.connection_status,
          connected |-> is_connected,
          pending_requests |-> Cardinality({i \in Ids : pending_requests[i] # NoCall})]

(* --------------------------- send_request ----------------------------- *)
\* Mutation: the connection is not looked at
validate_request_unconnected(request) ==
  IF strip(request.id) = ""
    THEN ClientError("Request ID cannot be null or empty")
    ELSE IF strip(request.method) = ""
      THEN ClientError("Request method cannot be null or empty")
      ELSE None

\* _validate_request: the exception it raises, or None
validate_request(request) ==
  IF strip(request.id) = ""
    THEN ClientError("Request ID cannot be null or empty")
    ELSE IF strip(request.method) = ""
      THEN ClientError("Request method cannot be null or empty")
      ELSE IF ~is_connected
        THEN ClientError("Client is not connected")
        ELSE None

\* _enrich_request: the current context for a request that has none, and the
\* client's id and version in the metadata
enrich_request(request) ==
  [request EXCEPT !.context = IF @ = None /\ current_context # None
                                THEN current_context ELSE @,
                  !.metadata = [client_id |-> "client", client_version |-> "2.0"]]

\* Mutation: the future is entered into the table only after transport.send
register_after_send(s, c, request) ==
  [s EXCEPT !.c[c] = [IdleCall EXCEPT !.pc = "sending", !.request = request,
                                      !.attempt = 1, !.future = PendingFuture]]

\* self._pending_requests[request.id] = future
register(s, c, request) ==
  [s EXCEPT !.p[request.id] = c,
            !.c[c] = [IdleCall EXCEPT !.pc = "sending", !.request = request,
                                      !.attempt = 1, !.future = PendingFuture]]

\* send_request up to its first suspension inside transport.send: validation
\* (outside the try), registration, requests_total, request.sent, and the start
\* of the transport's write (the websocket send, or the first POST).
send_request(c, request) ==
  /\ calls[c].pc = "idle"
  /\ LET exc == validate_request(request) IN
     IF exc # None
       THEN /\ Apply([ClientState EXCEPT
                        !.c[c] = [IdleCall EXCEPT !.pc = "done", !.request = request,
                                                  !.outcome = Raised(exc)]])
            /\ UNCHANGED id_clash
       ELSE /\ Apply(emit_event(count_metric(register(ClientState, c,
                                                      enrich_request(request)),
                                             "requests_total"),
                                "request.sent"))
            /\ id_clash' = (id_clash \/ \E d \in Calls \ {c} :
                                          /\ InFlight(calls[d])
                                          /\ calls[d].request.id = request.id)
  /\ UNCHANGED << config_vars, probe_status, connect_outcome, frames, events_pc, context_vars, close_outcome, closed, transport_vars, ops, used >>

UsedIds == {calls[d].request.id : d \in {e \in Calls : calls[e].pc # "idle"}} \cap Ids
FreshIds ==
  IF Cardinality(UsedIds) < Len(IdSeq) THEN {IdSeq[Cardinality(UsedIds) + 1]} ELSE {}

\* What a caller can hand to send_request
Requests ==
  {MCPRequest(i, "search") : i \in UsedIds \cup FreshIds}
    \cup {MCPRequest(" ", "search"), MCPRequest("a", "")}

Issuable(c) == \A d \in Calls : d < c => calls[d].pc # "idle"

SendRequest(c) ==
  /\ Issuable(c)
  /\ \E request \in Requests : send_request(c, request)

\* send(): a request with a fresh uuid4 id
Send(c) ==
  /\ Issuable(c)
  /\ \E i \in FreshIds, method \in Methods : send_request(c, MCPRequest(i, method))

\* send_request's "except Exception": pop the id, _handle_error, re-raise
except_exception(s, c, exc) ==
  handle_error([s EXCEPT !.p[s.c[c].request.id] = NoCall,
                         !.c[c].pc = "done",
                         !.c[c].attempt = 0,
                         !.c[c].outcome = Raised(exc)])

\* WebSocketTransport.send returns from "await self._websocket.send(json_data)"
WsSendReturn(c) ==
  /\ kind = "websocket"
  /\ calls[c].pc = "sending"
  /\ \/ /\ Apply([ClientState EXCEPT !.c[c].pc = "waiting"])
        /\ UNCHANGED used
     \/ /\ Fault
        /\ Apply(except_exception(on_error(ClientState), c,
                                  MCPTransportException("Failed to send WebSocket message")))
  /\ UNCHANGED << config_vars, probe_status, connect_outcome, frames, events_pc, context_vars, close_outcome, closed, transport_vars, ops, id_clash >>

\* One failed attempt of HttpTransport.send: tenacity sleeps and retries, or,
\* after StopAfterAttempt attempts, re-raises into send_request.
attempt_failed(s, c, exc) ==
  IF s.c[c].attempt < StopAfterAttempt
    THEN [s EXCEPT !.c[c].pc = "backoff"]
    ELSE except_exception(s, c, exc)

\* HttpTransport.send returns from "async with self._session.post(...)"
HttpPostReturn(c) ==
  /\ kind = "http"
  /\ calls[c].pc \in {"sending", "sending_unnamed", "aborted"}
  /\ \/ /\ \E response \in Responses :
             Apply([on_message(ClientState, response) EXCEPT !.c[c].pc = "waiting"])
        /\ UNCHANGED used
     \/ /\ IF calls[c].pc = "aborted" THEN UNCHANGED used ELSE Fault
        /\ Apply(attempt_failed(on_error(ClientState), c,
                                MCPTransportException("Failed to send request")))
  /\ UNCHANGED << config_vars, probe_status, connect_outcome, frames, events_pc, context_vars, close_outcome, closed, transport_vars, ops, id_clash >>

\* tenacity's next attempt after the backoff sleep
HttpRetry(c) ==
  /\ kind = "http"
  /\ calls[c].pc = "backoff"
  /\ LET s == [ClientState EXCEPT !.c[c].attempt = @ + 1] IN
     IF transport_is_connected
       THEN Apply([s EXCEPT !.c[c].pc = "sending"])
       ELSE Apply(attempt_failed(s, c, MCPTransportException("Transport not connected")))
  /\ UNCHANGED << config_vars, probe_status, connect_outcome, frames, events_pc, context_vars, close_outcome, closed, transport_vars, ops, id_clash, used >>

\* Mutation: an error answer is counted and announced as a response received
await_return_counts_error(s, c) ==
  LET future == s.c[c].future IN
  CASE future.state = "result" ->
         emit_event(count_metric([s EXCEPT !.c[c].pc = "done",
                                           !.c[c].attempt = 0,
                                           !.c[c].outcome = Returned(future.value)],
                                 "responses_total"),
                    "response.received")
    [] future.state = "exception" ->
         except_exception(emit_event(count_metric(s, "responses_total"),
                                     "response.received"),
                          c, future.value)
    [] OTHER -> [s EXCEPT !.c[c].pc = "done", !.c[c].attempt = 0,
                          !.c[c].outcome = Raised(CancelledError)]

\* Mutation: a success is announced and returned without being counted
await_return_uncounted(s, c) ==
  LET future == s.c[c].future IN
  CASE future.state = "result" ->
         emit_event([s EXCEPT !.c[c].pc = "done",
                              !.c[c].attempt = 0,
                              !.c[c].outcome = Returned(future.value)],
                    "response.received")
    [] future.state = "exception" -> except_exception(s, c, future.value)
    [] OTHER -> [s EXCEPT !.c[c].pc = "done", !.c[c].attempt = 0,
                          !.c[c].outcome = Raised(CancelledError)]

\* "await asyncio.wait_for(future, timeout)" resumes with a done future
await_return(s, c) ==
  LET future == s.c[c].future IN
  CASE future.state = "result" ->
         emit_event(count_metric([s EXCEPT !.c[c].pc = "done",
                                           !.c[c].attempt = 0,
                                           !.c[c].outcome = Returned(future.value)],
                                 "responses_total"),
                    "response.received")
    [] future.state = "exception" -> except_exception(s, c, future.value)
    [] OTHER -> [s EXCEPT !.c[c].pc = "done", !.c[c].attempt = 0,
                          !.c[c].outcome = Raised(CancelledError)]

AwaitReturn(c) ==
  /\ calls[c].pc = "waiting"
  /\ calls[c].future.state \in {"result", "exception", "cancelled"}
  /\ Apply(await_return(ClientState, c))
  /\ UNCHANGED << config_vars, probe_status, connect_outcome, frames, events_pc, context_vars, close_outcome, closed, transport_vars, ops, id_clash, used >>

\* The timer of wait_for fires: the future is cancelled, the caller is woken
wait_for_timeout(c) ==
  /\ calls[c].pc = "waiting"
  /\ calls[c].future.state = "pending"
  /\ Apply([ClientState EXCEPT !.c[c].pc = "timeout",
                               !.c[c].future = [state |-> "cancelled", value |-> None]])
  /\ UNCHANGED << config_vars, probe_status, connect_outcome, frames, events_pc, context_vars, close_outcome, closed, transport_vars, ops, id_clash >>

\* ... as one of the things the environment does in a bounded behaviour
Timeout(c) ==
  /\ Fault
  /\ wait_for_timeout(c)

\* Mutation: wait_for(future, timeout=None), whose timer never fires
Deadline_none(c) ==
  /\ FALSE
  /\ UNCHANGED vars

\* ... as what happens timeout seconds after wait_for was entered, unless the
\* future is done by then
Deadline(c) ==
  /\ wait_for_timeout(c)
  /\ UNCHANGED used

\* Mutation: the timeout handler leaves the entry in the table
except_timeout_keeps_entry(s, c) ==
  handle_error([s EXCEPT !.c[c].pc = "done",
                         !.c[c].attempt = 0,
                         !.c[c].outcome = Raised(ClientError("Request timed out after 30 seconds"))])

\* send_request's "except asyncio.TimeoutError": pop, _handle_error, raise
except_timeout(s, c) ==
  handle_error([s EXCEPT !.p[s.c[c].request.id] = NoCall,
                         !.c[c].pc = "done",
                         !.c[c].attempt = 0,
                         !.c[c].outcome = Raised(ClientError("Request timed out after 30 seconds"))])

TimeoutHandler(c) ==
  /\ calls[c].pc = "timeout"
  /\ Apply(except_timeout(ClientState, c))
  /\ UNCHANGED << config_vars, probe_status, connect_outcome, frames, events_pc, context_vars, close_outcome, closed, transport_vars, ops, id_clash, used >>

\* The task awaiting send_request is cancelled by its owner.  In the write, the
\* POST or the backoff sleep, CancelledError is raised in send_request: it is a
\* BaseException, so neither except clause runs.  In wait_for, the future is
\* cancelled, and CancelledError leaves wait_for when the caller next runs.  In
\* wait_for after its timer fired, CancelledError is raised in place of the
\* TimeoutError: the entry stays in the table and no error is counted.
cancel_caller(s, c) ==
  IF s.c[c].pc = "waiting"
    THEN [s EXCEPT !.c[c].future = [state |-> "cancelled", value |-> None]]
    ELSE [s EXCEPT !.c[c].pc = "done",
                   !.c[c].attempt = 0,
                   !.c[c].outcome = Raised(CancelledError)]

CancelCaller(c) ==
  /\ \/ calls[c].pc \in {"sending", "sending_unnamed", "aborted", "backoff", "timeout"}
     \/ calls[c].pc = "waiting" /\ calls[c].future.state = "pending"
  /\ EnvBudget
  /\ used' = [used EXCEPT !.others = @ + 1]
  /\ Apply(cancel_caller(ClientState, c))
  /\ UNCHANGED << config_vars, probe_status, connect_outcome, frames, events_pc, context_vars, close_outcome, closed, transport_vars, ops, id_clash >>

(* ------------------------- close()'s clean-up ------------------------- *)
\* "for future in self._pending_requests.values(): if not future.done():
\* future.cancel()", then "self._pending_requests.clear()"
cancel_pending(s) ==
  [s EXCEPT
     !.c = [c \in Calls |->
              IF (\E i \in Ids : s.p[i] = c) /\ s.c[c].future.state = "pending"
                THEN [s.c[c] EXCEPT !.future = [state |-> "cancelled", value |-> None]]
                ELSE s.c[c]],
     !.p = [i \in Ids |-> NoCall]]

\* self._event_listeners.clear()
clear_listeners(s) == [s EXCEPT !.l = [t \in EventType |-> << >>]]

(* ----------------------------- transport ------------------------------ *)
\* "await self._session.close()": the POSTs in flight on the session that
\* _session names (pc "sending") run on a closed session from now on: such a
\* POST fails, unless its answer is there already
abort_posts(cs) ==
  [c \in Calls |-> IF kind = "http" /\ cs[c].pc = "sending"
                     THEN [cs[c] EXCEPT !.pc = "aborted"] ELSE cs[c]]

\* ... and so do the HEAD /health probes in flight on it: such a probe fails
abort_probes(o) ==
  [o EXCEPT ![<< "connect", "probe" >>] = 0,
            ![<< "connect", "probe_aborted" >>] = @ + o[<< "connect", "probe" >>]]

\* "self._session = ...": the session named so far is no longer named, and no
\* later disconnect() closes it.  The POSTs and probes in flight on it go on.
unname_posts(cs) ==
  [c \in Calls |-> IF kind = "http" /\ cs[c].pc = "sending"
                     THEN [cs[c] EXCEPT !.pc = "sending_unnamed"] ELSE cs[c]]

unname_probes(o) ==
  [o EXCEPT ![<< "connect", "probe" >>] = 0,
            ![<< "connect", "probe_unnamed" >>] = @ + o[<< "connect", "probe" >>]]

\* The client and its transport as one value w, for connect(), disconnect() and
\* close(), which run through both: w.s is the client's part
World ==
  [s |-> ClientState, transport_connected |-> transport_connected, session |-> session,
   websocket |-> websocket, receive_task |-> receive_task,
   sharing_tasks |-> sharing_tasks, orphan_tasks |-> orphan_tasks,
   unstarted_tasks |-> unstarted_tasks, cancelled_tasks |-> cancelled_tasks, ops |-> ops,
   close_outcome |-> close_outcome, connect_outcome |-> connect_outcome]

ApplyWorld(w) ==
  /\ Apply(w.s)
  /\ transport_connected' = w.transport_connected
  /\ session' = w.session
  /\ websocket' = w.websocket
  /\ receive_task' = w.receive_task
  /\ sharing_tasks' = w.sharing_tasks
  /\ orphan_tasks' = w.orphan_tasks
  /\ unstarted_tasks' = w.unstarted_tasks
  /\ cancelled_tasks' = w.cancelled_tasks
  /\ ops' = w.ops
  /\ close_outcome' = w.close_outcome
  /\ connect_outcome' = w.connect_outcome

\* The coroutine of who suspends at an await of the transport, and is resumed
suspend(w, who, at) == [w EXCEPT !.ops[<< who, at >>] = @ + 1]
resume(w, who, at) == [w EXCEPT !.ops[<< who, at >>] = @ - 1]

\* close() of a session that is closed already returns at once or suspends as
\* any other, as the library has it
Nows == IF kind = "http" THEN BOOLEAN ELSE {FALSE}

\* "self._websocket = ..." : the socket named so far is no longer named, and no
\* later disconnect() closes it.  The tasks that iterate it go on.
unname_socket(w) ==
  [w EXCEPT !.websocket = "none",
            !.orphan_tasks = @ + w.sharing_tasks,
            !.sharing_tasks = 0]

\* The named task iterates the socket that is named, unless a disconnect() has
\* set _websocket to None since connect() named the two
on_named_socket(w) == w.websocket # "none"

\* "self._receive_task = ..." : the task named so far, if it has not ended, goes
\* on without a name, and who awaits it awaits a task that is no longer named:
\* one about to be cancelled, or one that has ended
unname_task(w) ==
  LET task == w.receive_task
      awaited_by == [who \in Who |-> w.ops[<< who, "receive_task" >>]]
      alive == task \in {"cancelling", "cancelling_created"}
  IN
  [w EXCEPT !.receive_task = "none",
            !.sharing_tasks = IF task = "running" /\ on_named_socket(w) THEN @ + 1 ELSE @,
            !.orphan_tasks = IF task = "running" /\ ~on_named_socket(w) THEN @ + 1 ELSE @,
            !.unstarted_tasks = IF task = "created" THEN @ + 1 ELSE @,
            !.cancelled_tasks =
               IF alive
                 THEN Append(@, [started |-> task = "cancelling", awaited_by |-> awaited_by])
                 ELSE @,
            !.ops = [p \in Positions |->
                       CASE p[2] = "receive_task" -> 0
                         [] p[2] = "old_task" /\ alive -> w.ops[p] + awaited_by[p[1]]
                         [] p[2] = "ended_task" /\ ~alive -> w.ops[p] + awaited_by[p[1]]
                         [] OTHER -> w.ops[p]]]

RECURSIVE transport_disconnect(_, _, _)

\* close() after its disconnect(), returned or raised: the pending requests are
\* cancelled and cleared, the listeners cleared, and transport.close() is
\* disconnect() once more
close_rest(w, now) ==
  transport_disconnect([w EXCEPT !.s = clear_listeners(cancel_pending(@))],
                       "close_transport", now)

\* The session that _session names is no longer named
unname_session(w) == [w EXCEPT !.s.c = unname_posts(@), !.ops = unname_probes(@)]

\* transport.disconnect() returns to who called it: HttpTransport.connect names
\* a new session and starts the HEAD /health probe on it; disconnect() clears
\* the client's flag, and so does the disconnect() of close(), which goes on;
\* transport.close() returns and with it close()
disconnected(w, who, now) ==
  CASE who = "connect" ->
         suspend([unname_session(w) EXCEPT !.session = "open"], "connect", "probe")
    [] who = "disconnect" -> [w EXCEPT !.s.n = FALSE]
    [] who = "close" -> close_rest([w EXCEPT !.s.n = FALSE], now)
    [] who = "close_transport" -> [w EXCEPT !.close_outcome = "returned"]

\* transport.disconnect() raises what session.close() / websocket.close()
\* raised: it leaves connect() and disconnect() as it is, close() logs it and
\* goes on, and out of transport.close() it leaves close()
raised(w, who, now) ==
  CASE who = "connect" -> [w EXCEPT !.connect_outcome = "Exception"]
    [] who = "disconnect" -> w
    [] who = "close" -> close_rest(w, now)
    [] who = "close_transport" -> [w EXCEPT !.close_outcome = "raised"]

\* HttpTransport.disconnect after its "if self._session is not None:" block
http_disconnect_rest(w, who, now) ==
  disconnected([w EXCEPT !.transport_connected = FALSE, !.s = on_disconnect(@)], who, now)

\* ... resumed from "await self._session.close()"
after_session_close(w, who, now) ==
  http_disconnect_rest([unname_session(w) EXCEPT !.session = "none"], who, now)

\* HttpTransport.disconnect up to its suspension in session.close(), or to its end
http_disconnect(w, who, now) ==
  CASE w.session = "none" -> http_disconnect_rest(w, who, now)
    [] w.session = "closed" /\ now -> after_session_close(w, who, now)
    [] OTHER -> suspend([w EXCEPT !.session = "closed", !.s.c = abort_posts(@),
                                  !.ops = abort_probes(@)],
                        who, "session_close")

\* WebSocketTransport.disconnect from "if self.on_disconnect:"
ws_disconnect_rest(w, who, now) ==
  disconnected([w EXCEPT !.s = on_disconnect(@)], who, now)

\* ... from "if self._websocket is not None:" up to its suspension in
\* websocket.close(), or to its end
close_websocket(w, who, now) ==
  IF w.websocket # "none"
    THEN suspend(w, who, "websocket_close")
    ELSE ws_disconnect_rest(w, who, now)

\* ... resumed from "await self._websocket.close()"
after_websocket_close(w, who, now) ==
  ws_disconnect_rest(unname_socket(w), who, now)

\* ... resumed from "await self._receive_task"
after_receive_task(w, who, now) == close_websocket(unname_task(w), who, now)

\* task.cancel(): a CancelledError will be raised in the task when it next runs
cancel(task) ==
  CASE task = "created" -> "cancelling_created"
    [] task = "running" -> "cancelling"
    [] OTHER -> task

\* WebSocketTransport.disconnect up to its first suspension: the flag is
\* cleared; a receive task that has not ended is cancelled and awaited, one
\* that has ended is awaited without suspending
ws_disconnect(w, who, now) ==
  LET v == [w EXCEPT !.transport_connected = FALSE] IN
  CASE w.receive_task = "none" -> close_websocket(v, who, now)
    [] w.receive_task = "finished" -> after_receive_task(v, who, now)
    [] OTHER -> suspend([v EXCEPT !.receive_task = cancel(@)], who, "receive_task")

transport_disconnect(w, who, now) ==
  IF kind = "http" THEN http_disconnect(w, who, now) ELSE ws_disconnect(w, who, now)

\* transport.connect up to its first suspension: websockets.connect; for
\* HttpTransport the HEAD /health probe on a new session, or the close of the
\* session it still has
transport_connect(w, now) ==
  IF kind = "http"
    THEN IF w.session # "none"
           THEN http_disconnect(w, "connect", now)
           ELSE disconnected(w, "connect", now)
    ELSE suspend(w, "connect", "handshake")

\* The awaits of HttpTransport.connect in a probe whose session is open (the
\* one that is named or one that no longer is), and the await in which
\* transport.disconnect closes the session or socket
connect_awaits == {"probe", "probe_unnamed"}
close_await == IF kind = "http" THEN "session_close" ELSE "websocket_close"

\* In how many coroutines who is in progress
in_progress(who) == \E at \in Awaits : ops[<< who, at >>] > 0
\* A connect() is in progress
connecting == in_progress("connect")
\* A close() or disconnect() is in progress: "close" (in its disconnect()),
\* "close_transport" (in transport.close()), "disconnect", or "idle"
closing ==
  CASE in_progress("close") -> "close"
    [] in_progress("close_transport") -> "close_transport"
    [] in_progress("disconnect") -> "disconnect"
    [] OTHER -> "idle"

(* ------------------------------ connect ------------------------------- *)
\* Mutation: connect() does not look at _closed
ConnectBegin_unchecked ==
  /\ IF used.connects = 0
       THEN used' = [used EXCEPT !.connects = 1]
       ELSE EnvBudget /\ used' = [used EXCEPT !.others = @ + 1]
  /\ \E now \in Nows :
       ApplyWorld(transport_connect([World EXCEPT !.connect_outcome = "none"], now))
  /\ UNCHANGED << config_vars, probe_status, frames, events_pc, context_vars, closed, id_clash >>

\* connect(): ClientClosed on a closed client; else into transport.connect up to
\* its first suspension
ConnectBegin ==
  /\ IF closed
       THEN /\ EnvBudget
            /\ used' = [used EXCEPT !.refused = @ + 1]
            /\ connect_outcome' = "ClientError"
            /\ UNCHANGED << connected, pending_requests, metrics, event_queue,
                            listener_vars, messages, calls, transport_vars, ops,
                            close_outcome >>
       ELSE /\ IF used.connects = 0
                 THEN used' = [used EXCEPT !.connects = 1]
                 ELSE EnvBudget /\ used' = [used EXCEPT !.others = @ + 1]
            /\ \E now \in Nows :
                 ApplyWorld(transport_connect([World EXCEPT !.connect_outcome = "none"],
                                              now))
  /\ UNCHANGED << config_vars, probe_status, frames, events_pc, context_vars, closed, id_clash >>

\* transport.connect resumed with the connection made: the flag is set, the
\* websocket transport names its socket and a new receive task; on_connect
connection_made(w) ==
  LET v == IF kind = "http"
             THEN w
             ELSE [unname_task(unname_socket(w)) EXCEPT !.websocket = "open",
                                                        !.receive_task = "created"]
  IN [v EXCEPT !.transport_connected = TRUE, !.s = on_connect(@),
               !.connect_outcome = "returned"]

\* ... or with an exception: the flag is cleared; on_error; MCPTransportException
connection_failed(w) ==
  [w EXCEPT !.transport_connected = FALSE, !.s = on_error(@),
            !.connect_outcome = "TransportError"]

\* How a HEAD /health probe ends: with the status 200 or another, or it raises
ProbeResults == {"200", "503", "error"}

\* Mutation: the HTTP transport does not look at the outcome of its probe
probe_ended_ignored(w, status) == connection_made(w)

\* "if response.status == 200: ... else: raise", and "except Exception"
probe_ended(w, status) == IF status = "200" THEN connection_made(w) ELSE connection_failed(w)

\* HttpTransport.connect resumes from its probe, on the session that is named,
\* on one that is not named any more or on one that was closed under it: with
\* a status, or with an exception.  A status other than 200 and an exception
\* on an open session are faults of the environment; on a closed session the
\* probe raises unless its answer was there already.
HttpConnectFinish ==
  /\ kind = "http"
  /\ \E at \in connect_awaits \cup {"probe_aborted"}, status \in ProbeResults :
       /\ ops[<< "connect", at >>] > 0
       /\ IF status = "200" \/ (status = "error" /\ at = "probe_aborted")
            THEN UNCHANGED used
            ELSE Fault
       /\ probe_status' = status
       /\ ApplyWorld(probe_ended(resume(World, "connect", at), status))
  /\ UNCHANGED << config_vars, frames, events_pc, context_vars, closed, id_clash >>

\* WebSocketTransport.connect resumes from websockets.connect: with the
\* connection, or (a fault) with an exception
WsConnectFinish ==
  /\ kind = "websocket"
  /\ ops[<< "connect", "handshake" >>] > 0
  /\ LET w == resume(World, "connect", "handshake") IN
       \/ ApplyWorld(connection_made(w)) /\ UNCHANGED used
       \/ Fault /\ ApplyWorld(connection_failed(w))
  /\ UNCHANGED << config_vars, probe_status, frames, events_pc, context_vars, closed, id_clash >>

\* transport.connect resumes
ConnectFinish == HttpConnectFinish \/ WsConnectFinish

(* ------------------------ disconnect and close ------------------------ *)
\* disconnect(): into transport.disconnect up to its first suspension
DisconnectBegin ==
  /\ EnvBudget
  /\ used' = [used EXCEPT !.others = @ + 1]
  /\ \E now \in Nows : ApplyWorld(transport_disconnect(World, "disconnect", now))
  /\ UNCHANGED << config_vars, probe_status, frames, events_pc, context_vars, closed, id_clash >>

Registered(c) == \E i \in Ids : pending_requests[i] = c

mark_at_close(cs) ==
  [c \in Calls |-> IF Registered(c) THEN [cs[c] EXCEPT !.at_close = TRUE] ELSE cs[c]]

\* Mutation: close() without its "if self._closed: return"
Close_again ==
  /\ EnvBudget
  /\ used' = [used EXCEPT !.closes = @ + 1]
  /\ closed' = TRUE
  /\ \E now \in Nows :
       ApplyWorld(transport_disconnect([World EXCEPT !.s.c = mark_at_close(@)],
                                       "close", now))
  /\ UNCHANGED << config_vars, probe_status, frames, events_pc, context_vars, id_clash >>

\* close(): a no-op on a closed client; else _closed is set and disconnect()
\* entered, up to the first suspension of the transport
Close ==
  /\ EnvBudget
  /\ used' = [used EXCEPT !.closes = @ + 1]
  /\ IF closed
       THEN UNCHANGED << closed, connected, pending_requests, metrics, event_queue,
                         listener_vars, messages, calls, transport_vars, ops,
                         close_outcome, connect_outcome >>
       ELSE /\ closed' = TRUE
            /\ \E now \in Nows :
                 ApplyWorld(transport_disconnect([World EXCEPT !.s.c = mark_at_close(@)],
                                                 "close", now))
  /\ UNCHANGED << config_vars, probe_status, frames, events_pc, context_vars, id_clash >>

\* The transport.disconnect of who resumes from "await self._receive_task":
\* the task it awaits has ended, the named one or one that was named
TaskAwaited(who) ==
  /\ kind = "websocket"
  /\ \E at \in {"receive_task", "ended_task"} :
       /\ ops[<< who, at >>] > 0
       /\ at = "receive_task" => receive_task = "finished"
       /\ \E now \in Nows : ApplyWorld(after_receive_task(resume(World, who, at), who, now))
  /\ UNCHANGED << config_vars, probe_status, frames, events_pc, context_vars, closed, id_clash, used >>

\* The transport.disconnect of who resumes from session.close() /
\* websocket.close() and runs to its end, and who called it goes on
CloseReturns(who) ==
  /\ ops[<< who, close_await >>] > 0
  /\ \E now \in Nows :
       LET w == resume(World, who, close_await) IN
       ApplyWorld(IF kind = "http" THEN after_session_close(w, who, now)
                                   ELSE after_websocket_close(w, who, now))
  /\ UNCHANGED << config_vars, probe_status, frames, events_pc, context_vars, closed, id_clash, used >>

\* ... or session.close() / websocket.close() raises: the session or socket
\* stays set.  A fault of the environment; the close that transport.close()
\* repeats may fail as the first did.
CloseRaises(who) ==
  /\ ops[<< who, close_await >>] > 0
  /\ IF who = "close_transport" THEN UNCHANGED used ELSE Fault
  /\ \E now \in Nows : ApplyWorld(raised(resume(World, who, close_await), who, now))
  /\ UNCHANGED << config_vars, probe_status, frames, events_pc, context_vars, closed, id_clash >>

(* ------------------- the websocket receive loop ----------------------- *)
\* A frame that is no JSON or no MCPResponse
BadFrame == [undecodable |-> TRUE]
Frames == Responses \cup {BadFrame}

\* More frames may be taken (the record of frames, where kept, is bounded)
FrameBudget == recording => Len(frames) < MaxFrames

\* json.loads(message) and MCPResponse(**response_data) succeed
decodes(frame) == frame # BadFrame

\* Mutation: on_message is called again for a frame that decoded
receive_frame_twice(s, frame) ==
  IF decodes(frame) THEN on_message(on_message(s, frame), frame) ELSE on_error(s)

\* The body of "async for message in self._websocket": the frame is decoded and
\* handed to on_message; if that raises, on_error is called
receive_frame(s, frame) ==
  IF decodes(frame) THEN on_message(s, frame) ELSE on_error(s)

\* One inbound frame that decodes to a response, on the current socket
ReceiveMessage ==
  /\ kind = "websocket"
  /\ receive_task = "running"
  /\ FrameBudget
  /\ \E response \in Responses :
       /\ Apply(receive_frame(ClientState, response))
       /\ frames' = log(frames, response)
  /\ UNCHANGED << config_vars, probe_status, connect_outcome, events_pc, context_vars, close_outcome, closed, transport_vars, ops, id_clash, used >>

\* Mutation: a frame that fails to decode ends the loop
ReceiveBadFrame_ends_loop ==
  /\ kind = "websocket"
  /\ receive_task = "running"
  /\ FrameBudget
  /\ Fault
  /\ Apply(receive_frame(ClientState, BadFrame))
  /\ frames' = log(frames, BadFrame)
  /\ receive_task' = "finished"
  /\ transport_connected' = FALSE
  /\ UNCHANGED << config_vars, probe_status, connect_outcome, events_pc, context_vars, close_outcome, closed, session,
                  websocket, task_vars, ops, id_clash >>

\* One inbound frame that fails to decode
ReceiveBadFrame ==
  /\ kind = "websocket"
  /\ receive_task = "running"
  /\ FrameBudget
  /\ Fault
  /\ Apply(receive_frame(ClientState, BadFrame))
  /\ frames' = log(frames, BadFrame)
  /\ UNCHANGED << config_vars, probe_status, connect_outcome, events_pc, context_vars, close_outcome, closed, transport_vars, ops, id_clash >>

\* The socket that the named receive task iterates, once a closing handshake or
\* a failure has ended it: the one _websocket names, unless a disconnect()
\* that was resumed since the task began has set _websocket to None
socket_ended == IF websocket = "none" THEN "none" ELSE "closed"

\* The socket closes (the loop ends) or fails (WebSocketException, on_error);
\* the finally clause clears the transport's flag.
SocketClosed ==
  /\ kind = "websocket"
  /\ receive_task = "running"
  /\ receive_task' = "finished"
  /\ websocket' = socket_ended
  /\ transport_connected' = FALSE
  /\ \/ Apply(ClientState) /\ UNCHANGED used
     \/ /\ Fault
        /\ Apply(on_error(ClientState))
  /\ UNCHANGED << config_vars, probe_status, connect_outcome, frames, events_pc, context_vars, close_outcome, closed, session, task_vars, ops, id_clash >>

\* The task that connect() created runs for the first time: "if
\* self._websocket is None: return" ends it outside the try statement, else it
\* begins to iterate the socket
ReceiveStart ==
  /\ kind = "websocket"
  /\ receive_task = "created"
  /\ receive_task' = IF websocket = "none" THEN "finished" ELSE "running"
  /\ UNCHANGED << config_vars, probe_status, connect_outcome, frames, events_pc, context_vars, close_outcome, connected, closed, pending_requests, metrics, event_queue,
                  listener_vars, messages, transport_connected, session, websocket,
                  task_vars, calls, ops, id_clash, used >>

\* ... a task that was left without a name before it ran: it iterates the
\* socket that is named when it runs
OrphanStart ==
  /\ unstarted_tasks > 0
  /\ unstarted_tasks' = unstarted_tasks - 1
  /\ sharing_tasks' = IF websocket = "none" THEN sharing_tasks ELSE sharing_tasks + 1
  /\ UNCHANGED << config_vars, probe_status, connect_outcome, frames, events_pc, context_vars,
                  close_outcome, connected, closed, pending_requests, metrics, event_queue,
                  listener_vars, messages, transport_connected, session, websocket,
                  receive_task, orphan_tasks, cancelled_tasks, calls, ops, id_clash, used >>

\* A receive task that a later connect() or disconnect() left running takes a
\* frame that decodes to a response
OrphanReceive ==
  /\ sharing_tasks + orphan_tasks > 0
  /\ FrameBudget
  /\ \E response \in Responses :
       /\ Apply(receive_frame(ClientState, response))
       /\ frames' = log(frames, response)
  /\ UNCHANGED << config_vars, probe_status, connect_outcome, events_pc, context_vars, close_outcome, closed, transport_vars, ops, id_clash, used >>

\* ... or one that fails to decode
OrphanBadFrame ==
  /\ sharing_tasks + orphan_tasks > 0
  /\ FrameBudget
  /\ Fault
  /\ Apply(receive_frame(ClientState, BadFrame))
  /\ frames' = log(frames, BadFrame)
  /\ UNCHANGED << config_vars, probe_status, connect_outcome, events_pc, context_vars, close_outcome, closed, transport_vars, ops, id_clash >>

\* ... and its socket closes or fails (WebSocketException, on_error), the one
\* that _websocket names or one it no longer names; its finally clause clears
\* the transport's flag
OrphanEnd ==
  /\ \/ /\ sharing_tasks > 0
        /\ sharing_tasks' = sharing_tasks - 1
        /\ websocket' = "closed"
        /\ UNCHANGED orphan_tasks
     \/ /\ orphan_tasks > 0
        /\ orphan_tasks' = orphan_tasks - 1
        /\ UNCHANGED << sharing_tasks, websocket >>
  /\ transport_connected' = FALSE
  /\ \/ Apply(ClientState) /\ UNCHANGED used
     \/ /\ Fault
        /\ Apply(on_error(ClientState))
  /\ UNCHANGED << config_vars, probe_status, connect_outcome, frames, events_pc, context_vars,
                  close_outcome, closed, session, receive_task, unstarted_tasks,
                  cancelled_tasks, ops, id_clash >>

\* The CancelledError of a cancelled receive task is raised in it: "except
\* asyncio.CancelledError", and the finally clause clears the transport's flag.
\* In a task that has not run yet it is raised before the try statement.
ReceiveCancelled ==
  /\ receive_task \in {"cancelling", "cancelling_created"}
  /\ receive_task' = "finished"
  /\ transport_connected' = IF receive_task = "cancelling" THEN FALSE ELSE transport_connected
  /\ UNCHANGED << config_vars, probe_status, connect_outcome, frames, events_pc, context_vars, close_outcome, connected, closed, pending_requests, metrics, event_queue,
                  listener_vars, messages, session, websocket, task_vars,
                  calls, ops, id_clash, used >>

\* A sequence without its n-th element
without(seq, n) == SubSeq(seq, 1, n - 1) \o SubSeq(seq, n + 1, Len(seq))

\* ... in a cancelled task that _receive_task no longer names; the
\* disconnect() that await it can resume
OrphanCancelled ==
  /\ \E n \in 1..Len(cancelled_tasks) :
       LET task == cancelled_tasks[n] IN
       /\ cancelled_tasks' = without(cancelled_tasks, n)
       /\ transport_connected' = IF task.started THEN FALSE ELSE transport_connected
       /\ ops' = [p \in Positions |->
                    CASE p[2] = "old_task" -> ops[p] - task.awaited_by[p[1]]
                      [] p[2] = "ended_task" -> ops[p] + task.awaited_by[p[1]]
                      [] OTHER -> ops[p]]
  /\ UNCHANGED << config_vars, probe_status, connect_outcome, frames, events_pc, context_vars,
                  close_outcome, connected, closed, pending_requests, metrics, event_queue,
                  listener_vars, messages, session, websocket, receive_task, sharing_tasks,
                  orphan_tasks, unstarted_tasks, calls, id_clash, used >>

(* ------------------------------ events() ------------------------------ *)
\* Mutation: the loop of events() does not look at _closed
events_loop_forever == "getting"

\* "while not self._closed:" the generator goes into its next wait_for(get) or ends
events_loop == IF closed THEN "stopped" ELSE "getting"

\* The consumer asks the generator for its first event: the generator runs up
\* to its first wait_for(get), or ends at once on a closed client
EventsStart ==
  /\ events_pc = "none"
  /\ events_pc' = events_loop
  /\ UNCHANGED << config_vars, probe_status, connect_outcome, frames, context_vars, close_outcome, listener_vars, messages, connected,
                  closed, pending_requests, metrics, event_queue, transport_vars, calls,
                  ops, id_clash, used >>

\* The get() of wait_for(self._event_queue.get(), 1.0) runs: it takes the
\* oldest event off the queue, which the generator yields when it next runs,
\* or suspends on an empty queue
EventsGet ==
  /\ events_pc = "getting"
  /\ IF event_queue # << >>
       THEN event_queue' = Tail(event_queue) /\ events_pc' = "yielded"
       ELSE event_queue' = event_queue /\ events_pc' = "waiting"
  /\ UNCHANGED << config_vars, probe_status, connect_outcome, frames, context_vars, close_outcome, listener_vars, messages, connected,
                  closed, pending_requests, metrics, transport_vars, calls, ops, id_clash, used >>

\* ... and, suspended, is woken by an event put on the queue and takes it
EventsNext ==
  /\ events_pc = "waiting"
  /\ event_queue # << >>
  /\ event_queue' = Tail(event_queue)
  /\ events_pc' = "yielded"
  /\ UNCHANGED << config_vars, probe_status, connect_outcome, frames, context_vars, close_outcome, listener_vars, messages, connected,
                  closed, pending_requests, metrics, transport_vars, calls, ops, id_clash, used >>

\* The consumer asks for the next event: the generator goes round its loop
EventsResume ==
  /\ events_pc = "yielded"
  /\ events_pc' = events_loop
  /\ UNCHANGED << config_vars, probe_status, connect_outcome, frames, context_vars, close_outcome, listener_vars, messages, connected,
                  closed, pending_requests, metrics, event_queue, transport_vars, calls,
                  ops, id_clash, used >>

\* The second of wait_for passes before the suspended get() has returned:
\* "except asyncio.TimeoutError: continue".  An event put on the queue while
\* the timeout was on its way stays on the queue.
EventsTimeout ==
  /\ events_pc = "waiting"
  /\ events_pc' = events_loop
  /\ UNCHANGED << config_vars, probe_status, connect_outcome, frames, context_vars, close_outcome, listener_vars, messages, connected,
                  closed, pending_requests, metrics, event_queue, transport_vars, calls,
                  ops, id_clash, used >>

(* ------------------- listeners and update_context --------------------- *)
ListenerBudget == used.listener_ops < MaxListenerOps

AddEventListener ==
  /\ ListenerBudget
  /\ used' = [used EXCEPT !.listener_ops = @ + 1]
  /\ \E event_type \in ListenedTypes, name \in Listeners :
       Apply(add_event_listener(ClientState, event_type, name))
  /\ UNCHANGED << config_vars, probe_status, connect_outcome, frames, events_pc, context_vars, close_outcome, closed, transport_vars,
                  ops, id_clash >>

RemoveEventListener ==
  /\ ListenerBudget
  /\ used' = [used EXCEPT !.listener_ops = @ + 1]
  /\ \E event_type \in ListenedTypes, name \in Listeners :
       Apply(remove_event_listener(ClientState, event_type, name))
  /\ UNCHANGED << config_vars, probe_status, connect_outcome, frames, events_pc, context_vars, close_outcome, closed, transport_vars,
                  ops, id_clash >>

\* update_context(): the context is stored and asyncio.create_task makes a task
\* that will emit; called where no event loop is running (from synchronous
\* code, whatever the client has in progress), create_task raises RuntimeError
\* and no task is made
UpdateContext ==
  /\ EnvBudget
  /\ used' = [used EXCEPT !.updates = @ + 1]
  /\ \E context \in Contexts : current_context' = context
  /\ \/ emit_tasks' = emit_tasks + 1
     \/ UNCHANGED emit_tasks
  /\ UNCHANGED << config_vars, probe_status, connect_outcome, frames, events_pc, close_outcome, connected, closed, pending_requests, metrics,
                  event_queue, listener_vars, messages, transport_vars, calls, ops, id_clash >>

\* The task update_context() created runs: _emit_event(CONTEXT_UPDATED, ...)
ContextUpdatedTask ==
  /\ emit_tasks > 0
  /\ emit_tasks' = emit_tasks - 1
  /\ Apply(emit_event(ClientState, "context.updated"))
  /\ UNCHANGED << config_vars, probe_status, connect_outcome, frames, events_pc, current_context, close_outcome, closed, transport_vars,
                  ops, id_clash, used >>

(* --------------------------- specification ---------------------------- *)
Next ==
  \/ \E c \in Calls : SendRequest(c)
  \/ \E c \in Calls : Send(c)
  \/ \E c \in Calls : WsSendReturn(c)
  \/ \E c \in Calls : HttpPostReturn(c)
  \/ \E c \in Calls : HttpRetry(c)
  \/ \E c \in Calls : AwaitReturn(c)
  \/ \E c \in Calls : Timeout(c)
  \/ \E c \in Calls : TimeoutHandler(c)
  \/ \E c \in Calls : CancelCaller(c)
  \/ ConnectBegin
  \/ ConnectFinish
  \/ DisconnectBegin
  \/ Close
  \/ \E who \in Who : TaskAwaited(who)
  \/ \E who \in Who : CloseReturns(who)
  \/ \E who \in Who : CloseRaises(who)
  \/ ReceiveStart
  \/ OrphanStart
  \/ ReceiveCancelled
  \/ OrphanCancelled
  \/ ReceiveMessage
  \/ ReceiveBadFrame
  \/ SocketClosed
  \/ OrphanReceive
  \/ OrphanBadFrame
  \/ OrphanEnd

Spec == Init /\ [][Next]_vars

\* The client of an application that registers listeners, updates the context
\* and connects, disconnects and closes, but sends no request and does not
\* iterate events()
NextEvents ==
  \/ AddEventListener
  \/ RemoveEventListener
  \/ UpdateContext
  \/ ContextUpdatedTask
  \/ ConnectBegin
  \/ ConnectFinish
  \/ DisconnectBegin
  \/ Close
  \/ \E who \in Who : TaskAwaited(who)
  \/ \E who \in Who : CloseReturns(who)
  \/ \E who \in Who : CloseRaises(who)
  \/ ReceiveStart
  \/ ReceiveCancelled
  \/ OrphanCancelled
  \/ SocketClosed

\* The client of an application that iterates events(), updates the context and
\* connects, disconnects and closes, but registers no listener and sends no
\* request
NextIterate ==
  \/ UpdateContext
  \/ ContextUpdatedTask
  \/ ConnectBegin
  \/ ConnectFinish
  \/ DisconnectBegin
  \/ Close
  \/ \E who \in Who : TaskAwaited(who)
  \/ \E who \in Who : CloseReturns(who)
  \/ \E who \in Who : CloseRaises(who)
  \/ ReceiveStart
  \/ ReceiveCancelled
  \/ OrphanCancelled
  \/ SocketClosed
  \/ EventsStart
  \/ EventsGet
  \/ EventsNext
  \/ EventsResume
  \/ EventsTimeout

\* The client, built with or without metrics, of an application that has one
\* caller of send_request, connects and disconnects, and does not close the
\* client or cancel its caller
NextMetrics ==
  \/ SendRequest(1)
  \/ Send(1)
  \/ WsSendReturn(1)
  \/ HttpPostReturn(1)
  \/ HttpRetry(1)
  \/ AwaitReturn(1)
  \/ Timeout(1)
  \/ TimeoutHandler(1)
  \/ ConnectBegin
  \/ ConnectFinish
  \/ DisconnectBegin
  \/ TaskAwaited("disconnect")
  \/ \E who \in {"connect", "disconnect"} : CloseReturns(who)
  \/ ReceiveStart
  \/ OrphanStart
  \/ ReceiveCancelled
  \/ OrphanCancelled
  \/ ReceiveMessage
  \/ ReceiveBadFrame
  \/ SocketClosed
  \/ OrphanReceive
  \/ OrphanBadFrame
  \/ OrphanEnd

SpecMetrics == InitAnyMetrics /\ [][NextMetrics]_vars

\* The websocket client of an application that connects and has one caller of
\* send_request, with the record of the frames its receive loops take
NextReceive ==
  \/ SendRequest(1)
  \/ Send(1)
  \/ WsSendReturn(1)
  \/ AwaitReturn(1)
  \/ ConnectBegin
  \/ WsConnectFinish
  \/ ReceiveStart
  \/ OrphanStart
  \/ ReceiveMessage
  \/ ReceiveBadFrame
  \/ SocketClosed
  \/ OrphanReceive
  \/ OrphanBadFrame
  \/ OrphanEnd

SpecReceive == InitReceive /\ [][NextReceive]_vars

\* The HTTP client of an application that connects and sends requests
NextRetry ==
  \/ \E c \in Calls : SendRequest(c)
  \/ \E c \in Calls : Send(c)
  \/ \E c \in Calls : HttpPostReturn(c)
  \/ \E c \in Calls : HttpRetry(c)
  \/ \E c \in Calls : AwaitReturn(c)
  \/ ConnectBegin
  \/ HttpConnectFinish
  \/ CloseReturns("connect")

SpecRetry == InitRetry /\ [][NextRetry]_vars

\* connect() and disconnect() of an application that awaits each of them
\* before it calls the next
SerialConnectBegin == closing = "idle" /\ ~connecting /\ ConnectBegin
SerialDisconnectBegin == closing = "idle" /\ ~connecting /\ DisconnectBegin

\* The websocket client of that application, with the record of the frames
\* its receive loops take
NextSerial ==
  \/ SerialConnectBegin
  \/ WsConnectFinish
  \/ SerialDisconnectBegin
  \/ TaskAwaited("disconnect")
  \/ CloseReturns("disconnect")
  \/ ReceiveStart
  \/ OrphanStart
  \/ ReceiveCancelled
  \/ ReceiveMessage
  \/ SocketClosed
  \/ OrphanReceive
  \/ OrphanEnd

SpecSerial == InitReceive /\ [][NextSerial]_vars

\* ... under the event loop's scheduling: a connect() or disconnect() whose
\* await can resume is resumed, and the wait_for of events() ends
FairSpecSerial ==
  /\ SpecSerial
  /\ WF_vars(WsConnectFinish)
  /\ WF_vars(TaskAwaited("disconnect"))
  /\ WF_vars(CloseReturns("disconnect"))
  /\ WF_vars(ReceiveStart)
  /\ WF_vars(OrphanStart)
  /\ WF_vars(ReceiveCancelled)

\* The client of an application that connects, has one caller of send_request
\* and closes the client, with the timer of wait_for
NextCalls ==
  \/ SendRequest(1)
  \/ WsSendReturn(1)
  \/ HttpPostReturn(1)
  \/ HttpRetry(1)
  \/ AwaitReturn(1)
  \/ Deadline(1)
  \/ TimeoutHandler(1)
  \/ ConnectBegin
  \/ ConnectFinish
  \/ Close
  \/ \E who \in {"close", "close_transport"} : TaskAwaited(who)
  \/ \E who \in {"connect", "close", "close_transport"} : CloseReturns(who)
  \/ ReceiveStart
  \/ ReceiveCancelled
  \/ OrphanCancelled
  \/ ReceiveMessage
  \/ SocketClosed

SpecCalls == Init /\ [][NextCalls]_vars

\* ... under the event loop's scheduling: a coroutine whose await can resume
\* is resumed (the write, the POST, the backoff sleep, the future, the timer
\* of wait_for and its handler), and the wait_for of events() ends
FairSpecCalls ==
  /\ SpecCalls
  /\ WF_vars(WsSendReturn(1))
  /\ WF_vars(HttpPostReturn(1))
  /\ WF_vars(HttpRetry(1))
  /\ WF_vars(AwaitReturn(1))
  /\ WF_vars(Deadline(1))
  /\ WF_vars(TimeoutHandler(1))

SpecEvents == Init /\ [][NextEvents]_vars

SpecIterate == Init /\ [][NextIterate]_vars

\* ... under the event loop's scheduling, with a consumer that iterates
\* events() and keeps asking for the next event: the wait_for of events() ends,
\* with an event or after its second, and a created task is run
FairSpecIterate ==
  /\ SpecIterate
  /\ WF_vars(EventsStart)
  /\ WF_vars(EventsGet)
  /\ WF_vars(EventsNext)
  /\ WF_vars(EventsResume)
  /\ WF_vars(EventsTimeout)
  /\ WF_vars(ContextUpdatedTask)

(* ------------------------------ claims -------------------------------- *)
id_of(c) == calls[c].request.id
Issued(c) == calls[c].pc # "idle"
Done(c) == calls[c].pc = "done"
TimeoutError == ClientError("Request timed out after 30 seconds")
TimedOut(c) == Done(c) /\ calls[c].outcome = Raised(TimeoutError)

\* C1: while the calls in flight have pairwise distinct ids, every call whose
\* future is unresolved owns the table entry of its id (so the response with
\* its id reaches it, in whatever order the responses arrive), a future is
\* resolved by at most one response, that response carries the call's own id,
\* and the call returns no other response.
C1_EachResolvedOnceByOwnResponse ==
  ~id_clash =>
    \A c \in Calls :
      /\ calls[c].nres <= 1
      /\ (InFlight(calls[c]) /\ calls[c].future.state = "pending")
            => pending_requests[id_of(c)] = c
      /\ calls[c].future.state \in {"result", "exception"}
            => calls[c].nres = 1 /\ calls[c].answer.id = id_of(c)
      /\ calls[c].future.state = "result" => calls[c].future.value = calls[c].answer
      /\ calls[c].outcome.kind = "returned" => calls[c].outcome.value = calls[c].answer

\* Two calls with distinct ids in flight, the later one resolved first
C1_Witness ==
  /\ ~id_clash
  /\ calls[1].pc = "waiting" /\ calls[1].future.state = "pending"
  /\ calls[2].outcome.kind = "returned"
  /\ id_of(1) # id_of(2)

\* C7: a Response returned by send_request carries the id of its request
C7_ReturnedIdIsRequestId ==
  \A c \in Calls :
    calls[c].outcome.kind = "returned" => calls[c].outcome.value.id = id_of(c)

\* Both calls returned, one of them after an error response for the other id
\* had arrived
C7_Witness ==
  /\ \A c \in Calls : calls[c].outcome.kind = "returned"
  /\ id_of(1) # id_of(2)

\* C2: once a call has raised its timeout error its entry is gone: the table
\* does not name the call any more, it holds no entry for the id at all unless
\* another request was issued with that id, and no response has been or is
\* applied to the call's future, which stays cancelled.
SoleUser(c) == \A d \in Calls \ {c} : Issued(d) => id_of(d) # id_of(c)

C2_TimeoutRemovesEntry ==
  \A c \in Calls :
    TimedOut(c) =>
      /\ pending_requests[id_of(c)] # c
      /\ SoleUser(c) => pending_requests[id_of(c)] = NoCall
      /\ calls[c].future.state = "cancelled"
      /\ calls[c].nres = 0

\* A call has timed out and the other call, with another id, was answered later
C2_Witness ==
  \E c \in Calls :
    /\ TimedOut(c)
    /\ SoleUser(c)
    /\ \E d \in Calls \ {c} : calls[d].outcome.kind = "returned"

\* C3 (as claimed): an id has an entry in the table only while a send_request
\* call for that id is in progress, whichever way the call ends.
C3_Claim ==
  \A i \in Ids :
    pending_requests[i] # NoCall => \E c \in Calls : InFlight(calls[c]) /\ id_of(c) = i

\* C4 (as claimed): once close() has returned, every request that had an entry
\* when close() was first called has a cancelled future, has left the table,
\* and its caller, once resumed, got the cancellation error and nothing else.
C4_Claim ==
  (closed /\ closing = "idle") =>
    \A c \in Calls :
      calls[c].at_close =>
        /\ calls[c].future.state = "cancelled"
        /\ ~Registered(c)
        /\ Done(c) => calls[c].outcome = Raised(CancelledError)

\* C5: a close() on a client that is already closed, whether the first close()
\* has returned or is still in its disconnect, changes nothing: the transport
\* is not touched, no event is queued, table, calls and counters stay as they are.
C5_SecondCloseIsNoOp ==
  [][(closed /\ used'.closes = used.closes + 1) =>
       UNCHANGED << config_vars, probe_status, connect_outcome, frames, events_pc, context_vars, close_outcome, connected, closed, pending_requests, metrics,
                    event_queue, listener_vars, messages, transport_vars, calls, ops,
                    id_clash >>]_vars

\* A second close() was made while the first one was in its disconnect with a
\* request pending
C5_Witness ==
  /\ used.closes = 2
  /\ closing = "close"
  /\ \E c \in Calls : Registered(c)

\* C6: a send_request with a well-formed request made while is_connected() is
\* false ends at once with the not-connected error: no future is made, no
\* attempt of transport.send starts, the table is left as it was, requests_total
\* is not incremented and no request-sent event is emitted.
NotConnectedError == ClientError("Client is not connected")
WellFormed(request) == strip(request.id) # "" /\ strip(request.method) # ""

C6_NotConnectedNeverReachesTransport ==
  [][\A c \in Calls :
       (/\ calls[c].pc = "idle"
        /\ calls'[c].pc # "idle"
        /\ ~is_connected
        /\ WellFormed(calls'[c].request))
         => /\ calls'[c].pc = "done"
            /\ calls'[c].outcome = Raised(NotConnectedError)
            /\ calls'[c].future = NoFuture
            /\ calls'[c].attempt = 0
            /\ pending_requests' = pending_requests
            /\ metrics'.requests_total = metrics.requests_total
            /\ emitted'["request.sent"] = emitted["request.sent"]]_vars

\* A call failed with the not-connected error while an earlier request was
\* registered and counted
C6_Witness ==
  /\ Registered(1)
  /\ metrics.requests_total = 1
  /\ calls[2].outcome = Raised(NotConnectedError)

\* C8 (as claimed): no two calls in flight share an id, and the entry of a call
\* whose future is unresolved is not replaced by another call's.
C8_Claim ==
  /\ \A c, d \in Calls :
       (c # d /\ InFlight(calls[c]) /\ InFlight(calls[d])) => id_of(c) # id_of(d)
  /\ \A c \in Calls :
       (InFlight(calls[c]) /\ calls[c].future.state = "pending" /\ ~closed)
         => pending_requests[id_of(c)] = c

\* C9 (as claimed): over HTTP, when the third attempt of the only request made
\* succeeds after two failed attempts, errors_total is still 0.
C9_Claim ==
  \A c \in Calls :
    (/\ kind = "http"
     /\ calls[c].pc = "waiting"
     /\ calls[c].attempt = StopAfterAttempt
     /\ calls[c].future.state = "result"
     /\ \A d \in Calls \ {c} : ~Issued(d))
      => metrics.errors_total = 0

\* C10 (as claimed): a call that ends on an error response for its id returns
\* a Response whose is_success is false and whose error is the one received.
EndedByAnswer(c) ==
  /\ Done(c)
  /\ calls[c].future.state = "exception"
  /\ ~(/\ calls[c].outcome.kind = "raised"
       /\ calls[c].outcome.value.cls \in {"CancelledError", "MCPTransportException"})

C10_Claim ==
  \A c \in Calls :
    EndedByAnswer(c) =>
      /\ calls[c].outcome.kind = "returned"
      /\ ~is_success(calls[c].outcome.value)
      /\ calls[c].outcome.value.error = calls[c].answer.error

\* C10 (amended): a call whose future was given an error response never
\* returns a Response; when it ends on that answer it raises an
\* MCPClientException carrying the message, code and type of the error received.
C10_ErrorResponseIsRaised ==
  \A c \in Calls :
    /\ calls[c].future.state = "exception" => calls[c].outcome.kind # "returned"
    /\ EndedByAnswer(c) =>
         /\ calls[c].outcome.kind = "raised"
         /\ calls[c].outcome.value.cls = "MCPClientException"
         /\ calls[c].outcome.value.message = calls[c].answer.error.message
         /\ calls[c].outcome.value.error_code = calls[c].answer.error.code
         /\ calls[c].outcome.value.error_type = calls[c].answer.error.type

\* A call has ended on a METHOD_NOT_FOUND answer for its id
C10_Witness ==
  \E c \in Calls :
    /\ EndedByAnswer(c)
    /\ calls[c].answer.id = id_of(c)
    /\ calls[c].answer.error.code = METHOD_NOT_FOUND

\* The calls that have returned a successful response
ReturnedCalls ==
  {c \in Calls : /\ Done(c)
                 /\ calls[c].outcome.kind = "returned"
                 /\ is_success(calls[c].outcome.value)}

\* C11: a call that ends on an error response raises a failure carrying the
\* code, type and message of that response, and error responses are neither
\* counted in responses_total nor announced by a response-received event:
\* there are never more of either than calls that returned a success.
C11_ErrorResponseIsTypedFailure ==
  /\ \A c \in Calls :
       EndedByAnswer(c) =>
         /\ calls[c].outcome = Raised(MCPClientException(calls[c].answer.error.message,
                                                         calls[c].answer.error.code,
                                                         calls[c].answer.error.type))
         /\ calls[c].outcome.value.cls # "CancelledError"
  /\ metrics.responses_total <= Cardinality(ReturnedCalls)
  /\ emitted["response.received"] <= Cardinality(ReturnedCalls)

\* One call has returned a success and the other has raised the error it was
\* answered with
C11_Witness ==
  \E c, d \in Calls :
    /\ EndedByAnswer(c)
    /\ calls[c].answer.error \in Errors
    /\ d \in ReturnedCalls
    /\ metrics.responses_total = 1
    /\ emitted["response.received"] = 1

\* C12 (as claimed): every call that has raised a failure to its caller went
\* through the error path first, so errors_total and the error-occurred
\* events count at least the calls that have failed.
FailedCalls ==
  {c \in Calls : /\ Done(c)
                 /\ calls[c].outcome.kind = "raised"
                 /\ calls[c].outcome.value.cls # "CancelledError"}

C12_Claim ==
  /\ Cardinality(FailedCalls) <= metrics.errors_total
  /\ Cardinality(FailedCalls) <= emitted["error.occurred"]

\* C13: responses_total and the number of response-received events both equal
\* the number of calls that have returned, so each successful resolution is
\* counted and announced exactly once and nothing else counts; what a call
\* returns is the successful response its future was resolved with.
C13_SuccessCountedOnce ==
  LET returned == {c \in Calls : calls[c].outcome.kind = "returned"} IN
  /\ metrics.responses_total = Cardinality(returned)
  /\ emitted["response.received"] = Cardinality(returned)
  /\ \A c \in returned :
       /\ Done(c)
       /\ calls[c].future = [state |-> "result", value |-> calls[c].outcome.value]
       /\ calls[c].answer = calls[c].outcome.value
       /\ is_success(calls[c].outcome.value)

\* Both calls have returned, after an error was counted
C13_Witness ==
  /\ \A c \in Calls : calls[c].outcome.kind = "returned"
  /\ metrics.responses_total = 2
  /\ metrics.errors_total > 0

\* C14 (as claimed): the deadline of a request runs from its registration on:
\* whenever a call's entry is registered and its future unresolved, the call is
\* under its wait_for timer, also while transport.send has not returned.
DeadlineRunning(c) == calls[c].pc = "waiting"

C14_Claim ==
  \A c \in Calls :
    (/\ InFlight(calls[c])
     /\ Registered(c)
     /\ calls[c].future.state = "pending")
      => DeadlineRunning(c)

\* C15: on a closed client a connect() is refused with the client-closed
\* error: no connect() enters transport.connect, and the refused call leaves
\* the transport, the connected flag, the table, the counters and the event
\* queue as they were.
C15_ConnectOnClosedIsRefused ==
  [][closed =>
       /\ ~connecting => ~connecting'
       /\ used'.connects = used.connects
       /\ used'.refused # used.refused =>
            UNCHANGED << connected, transport_vars, ops,
                         pending_requests, metrics, event_queue, calls >>]_vars

\* A connect() was refused on a client that had been connected before its close()
C15_Witness ==
  /\ closed
  /\ used.refused = 1
  /\ used.connects = 1
  /\ closing = "idle"
  /\ ~connected
  /\ emitted["request.sent"] > 0

\* C16: is_connected() is true only when the client's connected flag and the
\* transport's is_connected() are both true, and a client on which connect()
\* was never called reports false.
C16_IsConnectedNeedsBoth ==
  /\ is_connected => connected /\ transport_is_connected
  /\ used.connects = 0 => ~is_connected

\* The client's flag is still set while the transport reports itself down:
\* is_connected() is false
C16_Witness ==
  /\ connected
  /\ ~transport_is_connected
  /\ ~is_connected
  /\ used.connects = 1

\* C18: in every state, a response whose id has no entry in the table changes
\* nothing when the receive path hands it to the client: table, counters,
\* event queue, emitted events and every call's future stay as they are.
C18_UnknownIdIsDropped ==
  \A response \in Responses :
    pending_requests[response.id] = NoCall =>
      on_message(ClientState, response) = ClientState

\* A request has timed out, so a late answer to it would find no entry, while
\* the other request is still waiting on the socket
C18_Witness ==
  \E c, d \in Calls :
    /\ TimedOut(c)
    /\ pending_requests[id_of(c)] = NoCall
    /\ Registered(d)
    /\ id_of(d) # id_of(c)
    /\ kind = "websocket"
    /\ receive_task = "running"

\* C17 (as claimed): no failure of the transport's disconnect leaves close():
\* close() never ends by raising.
C17_Claim == close_outcome # "raised"

\* C19: in every state and for every event type, an emit puts the event on the
\* queue and leaves the table, the counters, the calls and the connected flag
\* to the operation that emits; and when the listeners registered for the type
\* only return or raise, each of them is called, in order, whether or not one
\* before it raised, and the registry is as it was.
C19_RaisingListenerIsContained ==
  \A event_type \in EventType :
    LET s == emit_event(ClientState, event_type)
        registered == event_listeners[event_type]
    IN /\ s.q = Append(event_queue, event_type)
       /\ s.p = pending_requests /\ s.m = metrics /\ s.c = calls /\ s.n = connected
       /\ (\A n \in 1..Len(registered) : registered[n] \in {"ok", "raise"}) =>
            /\ s.d = registered
            /\ s.l = event_listeners

\* A connect() has completed with a raising listener registered for its event
\* ahead of another one: both were called, the event was queued and the client
\* is connected
C19_Witness ==
  /\ event_listeners["connection.opened"] = << "raise", "ok" >>
  /\ delivered = << "raise", "ok" >>
  /\ connected
  /\ metrics.connection_status = "connected"
  /\ event_queue = << "connection.opened" >>

\* C20 (as claimed): in every state and for every event type, an emit calls
\* the listeners registered for the type when it starts, once per registration
\* and in registration order, whatever the listeners do during the fan-out;
\* and removing a listener that is not registered leaves the registry as it is.
C20_Claim ==
  \A event_type \in EventType :
    LET registered == event_listeners[event_type]
        called == emit_event(ClientState, event_type).d
    IN /\ Len(called) >= Len(registered)
       /\ SubSeq(called, 1, Len(registered)) = registered
       /\ \A name \in Listeners :
            (\A n \in 1..Len(registered) : registered[n] # name) =>
              remove_event_listener(ClientState, event_type, name) = ClientState

\* C21 (as claimed): the event queue has a fixed capacity and its length never
\* exceeds it.
C21_Claim ==
  /\ maxsize > 0
  /\ Len(event_queue) <= maxsize

\* C22: while the client is open the events() generator does not end, what
\* it takes off the queue is the oldest event, a generator that ends leaves
\* the queue as it is, and once the client is closed the generator of a
\* consumer that iterates it eventually ends, whatever the queue holds.
C22_EventsEndsAfterClose ==
  /\ [](~closed => events_pc # "stopped")
  /\ [][Len(event_queue') < Len(event_queue) => event_queue' = Tail(event_queue)]_vars
  /\ [][events_pc # "stopped" /\ events_pc' = "stopped" => UNCHANGED event_queue]_vars
  /\ closed ~> events_pc = "stopped"

\* The generator has ended on a closed client and left an event on the queue
C22_Witness ==
  /\ closed
  /\ events_pc = "stopped"
  /\ event_queue # << >>
  /\ used.connects = 1

\* C23: with metrics disabled get_metrics() is the empty mapping and the three
\* counters and connection_status stay at their initial values whatever has
\* happened; with metrics enabled the snapshot's pending_requests is the number
\* of entries in the table.
C23_DisabledMetricsStayUntouched ==
  /\ ~enable_metrics =>
       /\ get_metrics = << >>
       /\ metrics = [requests_total |-> 0, responses_total |-> 0, errors_total |-> 0,
                     connection_status |-> "disconnected"]
  /\ enable_metrics =>
       /\ get_metrics.pending_requests = Cardinality({c \in Calls : Registered(c)})
       /\ get_metrics.requests_total = metrics.requests_total

\* With metrics disabled the client is connected, an error has been handled
\* and the call has returned its response
C23_Witness ==
  /\ ~enable_metrics
  /\ connected
  /\ calls[1].outcome.kind = "returned"
  /\ \E i \in 1..Len(event_queue) : event_queue[i] = "error.occurred"

\* C24 (as claimed): once update_context(c) was called get_context() is c; a
\* request handed to send_request without a context gets the current one and
\* a request with a context of its own keeps it; and for every update_context
\* call made, the context-updated event has been emitted or the task that will
\* emit it is waiting to run.
OwnContext == [context_id |-> "ctx-own"]

C24_Claim ==
  /\ used.updates > 0 => current_context \in Contexts
  /\ \A own \in {None, OwnContext} :
       enrich_request([MCPRequest("a", "search") EXCEPT !.context = own]).context
         = IF own = None THEN current_context ELSE own
  /\ used.updates = emit_tasks + emitted["context.updated"]

\* C25 (as claimed): on_disconnect is invoked only for a transition from
\* connected to disconnected, so as long as connect() was never called no
\* connection-closed event is on the queue, and a close() never queues two of
\* them for one transition.
ConnectionClosedEvents ==
  Cardinality({n \in 1..Len(event_queue) : event_queue[n] = "connection.closed"})

C25_Claim ==
  /\ used.connects = 0 => ConnectionClosedEvents = 0
  /\ used.connects <= 1 => ConnectionClosedEvents <= 1

\* The receive tasks that have not ended, named by the transport or not
alive_receive_tasks ==
  (IF receive_task \in {"created", "running", "cancelling", "cancelling_created"}
     THEN 1 ELSE 0)
    + sharing_tasks + orphan_tasks + unstarted_tasks + Len(cancelled_tasks)

\* C30 (as claimed): whenever a receive task ends, because the socket closed
\* or failed or the task was cancelled by a disconnect, the transport's
\* connected flag is false afterwards, on every path: every step in which a
\* receive task ends leaves the flag false, and while the transport names a
\* task that has ended the flag is false.
C30_Claim ==
  /\ [](receive_task = "finished" => ~transport_connected /\ ~transport_is_connected)
  /\ [][alive_receive_tasks' < alive_receive_tasks => ~transport_connected']_vars

\* C26: the receive loops call on_message exactly once for each inbound frame
\* that decodes, in the order the frames were received, and one frame's handling
\* is over before the next frame is taken: the calls of on_message are, at
\* every moment, the decodable frames received so far, in order, and every
\* step takes at most one frame and handles it in that same step.
C26_OnMessageOncePerDecodedFrame ==
  /\ [](messages = SelectSeq(frames, decodes))
  /\ [][/\ Len(frames') <= Len(frames) + 1
        /\ Len(frames') = Len(frames) + 1 =>
             /\ SubSeq(frames', 1, Len(frames)) = frames
             /\ messages' = IF decodes(frames'[Len(frames')])
                               THEN Append(messages, frames'[Len(frames')])
                               ELSE messages]_vars

\* C26: two different responses were received and handled, in that order
C26_Witness ==
  /\ Len(frames) = 2
  /\ decodes(frames[1]) /\ decodes(frames[2])
  /\ frames[1] # frames[2]
  /\ messages = frames

\* The decodable frames received after the n-th, in order
later_frames(n) == SelectSeq(SubSeq(frames, n + 1, Len(frames)), decodes)

\* C29: a frame that fails to decode causes on_error and nothing else: the
\* step that takes it changes the client as one call of on_error does, calls
\* on_message for nothing, leaves the receive tasks running that were and the
\* transport (flag, socket) as it was; and every decodable frame received after
\* a bad frame has been handed to on_message.
C29_BadFrameOnlyReportsError ==
  /\ [][frames' = Append(frames, BadFrame) =>
          /\ ClientState' = on_error(ClientState)
          /\ messages' = messages
          /\ receive_task' = "running" \/ sharing_tasks' + orphan_tasks' > 0
          /\ UNCHANGED transport_vars]_vars
  /\ [](\A n \in 1..Len(frames) :
          frames[n] = BadFrame =>
            /\ Len(later_frames(n)) <= Len(messages)
            /\ SubSeq(messages, Len(messages) - Len(later_frames(n)) + 1, Len(messages))
                 = later_frames(n))

\* C29: a bad frame was received, then a response, which was delivered, on a
\* transport that is still connected
C29_Witness ==
  /\ Len(frames) = 2
  /\ frames[1] = BadFrame
  /\ decodes(frames[2])
  /\ messages = << frames[2] >>
  /\ metrics.errors_total >= 1
  /\ receive_task = "running"
  /\ transport_is_connected

\* The HEAD /health probes in flight
probes ==
  ops[<< "connect", "probe" >>] + ops[<< "connect", "probe_unnamed" >>]
    + ops[<< "connect", "probe_aborted" >>]

\* C27: HttpTransport.connect marks the transport connected and invokes
\* on_connect only if its HEAD /health probe succeeds: the step in which a
\* probe ends either ends one that answered 200, marks the transport
\* connected, calls on_connect and returns from connect(), or ends one that
\* answered another status or raised, leaves is_connected() of the transport
\* false, calls on_error and not on_connect, and raises a transport error.
C27_HttpConnectNeedsProbe ==
  [][kind = "http" /\ probes' < probes =>
       IF probe_status' = "200"
         THEN /\ transport_connected'
              /\ ClientState' = on_connect(ClientState)
              /\ connect_outcome' = "returned"
         ELSE /\ probe_status' \in {"503", "error"}
              /\ ~transport_connected'
              /\ ~transport_is_connected'
              /\ ClientState' = on_error(ClientState)
              /\ connect_outcome' = "TransportError"]_vars

\* C27: a connect() of the HTTP client whose probe answered 503 has raised,
\* after an earlier connect() whose probe answered 200 had returned
C27_Witness ==
  /\ kind = "http"
  /\ ~connecting
  /\ probe_status = "503"
  /\ connect_outcome = "TransportError"
  /\ session = "open"
  /\ ~transport_is_connected
  /\ metrics.errors_total = 1
  /\ \E n \in 1..Len(event_queue) : event_queue[n] = "connection.opened"

\* C28 (as claimed): one HttpTransport.send never makes more attempts than
\* TransportConfig.retry_attempts says, whatever value is configured.
C28_Claim == \A c \in Calls : calls[c].attempt <= retry_attempts

\* No disconnect() and no connect() is in progress and the transport has no
\* socket: the last disconnect() has returned and no connect() has followed it
Disconnected ==
  /\ kind = "websocket"
  /\ used.connects > 0
  /\ closing = "idle"
  /\ ~connecting
  /\ websocket = "none"

\* C31 (as claimed): once WebSocketTransport.disconnect has returned, and
\* until a new connect, no receive task of the transport is running (so that
\* on_message is not invoked again).
C31_Claim == Disconnected => receive_task # "running" /\ sharing_tasks + orphan_tasks = 0

\* The entry under the id of the response is that of a call whose future is
\* already resolved or cancelled
late(response) ==
  /\ pending_requests[response.id] # NoCall
  /\ calls[pending_requests[response.id]].future.state # "pending"

\* C32 (as claimed): a response that the receive loop takes for a request
\* whose future is already resolved or cancelled is not applied to that future
\* and not turned into an error: all on_message does with it is to drop it
\* (and the entry it found).
C32_Claim ==
  kind = "websocket" /\ receive_task = "running" =>
    \A response \in Responses :
      late(response) =>
        on_message(ClientState, response) =
          [ClientState EXCEPT !.p[response.id] = NoCall, !.h = log(@, response)]

\* C33: for a request that passes validation the entry is registered,
\* requests_total incremented (with metrics enabled) and request.sent emitted
\* before transport.send is invoked: the step that takes a call into
\* transport.send leaves the call's future under the request's id, the counter
\* one higher and request.sent as the newest event of the queue; and no
\* response.received has been emitted without a request.sent before it.
C33_RegisteredCountedAnnouncedThenSent ==
  /\ [][\A c \in Calls :
          calls[c].pc = "idle" /\ calls'[c].pc = "sending" =>
            /\ pending_requests'[calls'[c].request.id] = c
            /\ calls'[c].future = PendingFuture
            /\ metrics'.requests_total =
                 metrics.requests_total + (IF enable_metrics THEN 1 ELSE 0)
            /\ emitted'["request.sent"] = emitted["request.sent"] + 1
            /\ event_queue' = Append(event_queue, "request.sent")]_vars
  /\ [](emitted["response.received"] <= emitted["request.sent"])

\* C33: a request is with the transport, registered, counted and announced
C33_Witness ==
  /\ enable_metrics
  /\ calls[1].pc = "sending"
  /\ pending_requests[calls[1].request.id] = 1
  /\ metrics.requests_total = 1
  /\ event_queue = << "connection.opened", "request.sent" >>

\* C34 (as claimed): once close() has returned the client is not connected:
\* is_connected() is false (so that validation lets no request through to the
\* transport), also when a connect() was in progress while close() ran.
C34_Claim == closed /\ closing = "idle" => ~is_connected

\* C35 (as claimed): when a send_request call ends by a timeout or a failure,
\* the entry of every other call that is still in progress (also one issued
\* with the same id) stays in the table.
C35_Claim ==
  [][\A c \in Calls : \A d \in Calls \ {c} :
       /\ calls[c].pc \notin {"idle", "done"}
       /\ calls'[c].pc = "done"
       /\ calls'[c].outcome.kind = "raised"
       /\ calls'[c].outcome.value.cls # "CancelledError"
       /\ Registered(d)
       /\ InFlight(calls'[d])
       => \E i \in Ids : pending_requests'[i] = d]_vars

\* C36 (as claimed): a send_request call that fails after its entry was
\* registered adds exactly one to errors_total and emits exactly one
\* error.occurred event, whichever layer detected the failure: the step in
\* which the call raises counts and announces one error.
C36_Claim ==
  [][\A c \in Calls :
       /\ calls[c].pc \notin {"idle", "done"}
       /\ calls'[c].pc = "done"
       /\ calls'[c].outcome.kind = "raised"
       /\ calls'[c].outcome.value.cls # "CancelledError"
       => /\ metrics'.errors_total = metrics.errors_total + 1
          /\ emitted'["error.occurred"] = emitted["error.occurred"] + 1]_vars

\* len(self._pending_requests)
pending_count == Cardinality({i \in Ids : pending_requests[i] # NoCall})

\* C37: with metrics enabled, requests_total is at least responses_total plus
\* the number of entries in the pending-request table.
C37_RequestsCoverResponsesAndPending ==
  enable_metrics => metrics.requests_total >= metrics.responses_total + pending_count

\* C37: one request was answered and counted while another one is pending
C37_Witness ==
  /\ enable_metrics
  /\ metrics.responses_total = 1
  /\ pending_count = 1
  /\ metrics.requests_total = 2

\* C38: under fair scheduling a send_request call that passed validation
\* ends (it returns or raises), whatever the transport does afterwards.
C38_EveryCallEnds ==
  (calls[1].pc \notin {"idle", "done"}) ~> (calls[1].pc = "done")

\* C38: a call that waited on a closed socket for a response that never came
\* has ended by its timeout
C38_Witness ==
  /\ kind = "websocket"
  /\ websocket = "closed"
  /\ TimedOut(1)
  /\ calls[1].nres = 0

\* C39 (as claimed): a WebSocketTransport has at most one receive task alive
\* at any time, also after connect() was called again on a connected transport.
C39_Claim == kind = "websocket" => alive_receive_tasks <= 1

\* The receive loop of the current connection has ended on its own (no
\* disconnect() cancelled it)
loop_ended_on_its_own ==
  /\ kind = "websocket"
  /\ receive_task = "finished"
  /\ closing = "idle"

\* C40 (as claimed): when the receive loop has ended on its own, the client
\* eventually observes it: its own connected flag and the connection_status
\* metric become disconnected (on_disconnect is invoked).
C40_Claim ==
  loop_ended_on_its_own ~>
    (~connected /\ metrics.connection_status = "disconnected")

====
